---- MODULE Spec2Model ----
(***************************************************************************)
(* Registration and authentication service (FastAPI backend).             *)
(*                                                                         *)
(* The model covers the request handlers of app/routes/auth.py, the        *)
(* request schemas of app/schemas.py and the settings of app/config.py.    *)
(* The password hasher, the token service, get_current_user and the User   *)
(* table live in app/auth.py and app/models.py; they are modelled from     *)
(* the design document and from the way the handlers and tests use them.   *)
(*                                                                         *)
(* Strings that the code inspects character by character (emails and       *)
(* passwords) are sequences of one-character strings.  Time is counted in  *)
(* minutes.                                                                *)
(***************************************************************************)
EXTENDS Integers, Sequences, FiniteSets, TLC

(***************************************************************************)
(* Bounds of the model.                                                    *)
(***************************************************************************)
\* number of concurrently served requests (one database session each)
NumProcs == 2
\* the clock stops here
MaxClock == 32
\* number of times the clock advances
MaxTicks == 3
\* number of tokens kept by clients
MaxTokens == 1
\* number of digests kept by direct callers of the hasher
MaxDigests == 3

(***************************************************************************)
(* Settings (app/config.py).                                               *)
(***************************************************************************)
ACCESS_TOKEN_EXPIRE_MINUTES == 30
SECRET_KEY == "your-secret-key-change-this-in-production"
ALGORITHM == "HS256"

(***************************************************************************)
(* Character classes used by the password validator.                       *)
(***************************************************************************)
UpperChars ==
    {"A", "B", "C", "D", "E", "F", "G", "H", "I", "J", "K", "L", "M", "N",
     "O", "P", "Q", "R", "S", "T", "U", "V", "W", "X", "Y", "Z"}

LowerChars ==
    {"a", "b", "c", "d", "e", "f", "g", "h", "i", "j", "k", "l", "m", "n",
     "o", "p", "q", "r", "s", "t", "u", "v", "w", "x", "y", "z"}

DigitChars ==
    {"0", "1", "2", "3", "4", "5", "6", "7", "8", "9"}

SymbolChars ==
    {"!", "@", "#", "$", "%", "^", "&", "*", "(", ")", "_", "+", "-", "=",
     "[", "]", "{", "}", ";", "'", ":", "\"", "\\", "|", ",", ".", "<", ">",
     "/", "?"}

\* str.lower() on the characters that occur in the model
LowerOf ==
    ("A" :> "a") @@ ("B" :> "b") @@ ("C" :> "c") @@ ("D" :> "d")
    @@ ("E" :> "e") @@ ("F" :> "f") @@ ("G" :> "g") @@ ("H" :> "h")
    @@ ("I" :> "i") @@ ("J" :> "j") @@ ("K" :> "k") @@ ("L" :> "l")
    @@ ("M" :> "m") @@ ("N" :> "n") @@ ("O" :> "o") @@ ("P" :> "p")
    @@ ("Q" :> "q") @@ ("R" :> "r") @@ ("S" :> "s") @@ ("T" :> "t")
    @@ ("U" :> "u") @@ ("V" :> "v") @@ ("W" :> "w") @@ ("X" :> "x")
    @@ ("Y" :> "y") @@ ("Z" :> "z")

lower(c) == IF c \in DOMAIN LowerOf THEN LowerOf[c] ELSE c

\* str.lower()
LowerCase(v) == [i \in 1..Len(v) |-> lower(v[i])]

(***************************************************************************)
(* Input strings: the addresses and passwords used by the handlers'        *)
(* tests and by the seed list of the init-db handler.                      *)
(***************************************************************************)
RequiredDomain ==
    <<"@", "g", "e", "t", "c", "o", "v", "e", "r", "e", "d", ".", "i", "o">>

EmailTestuser ==
    <<"t", "e", "s", "t", "u", "s", "e", "r", "@", "g", "e", "t", "c", "o",
     "v", "e", "r", "e", "d", ".", "i", "o">>

EmailGmail ==
    <<"j", "o", "h", "n", ".", "d", "o", "e", "@", "g", "m", "a", "i", "l",
     ".", "c", "o", "m">>

PwSimilar ==
    <<"T", "e", "s", "t", "u", "s", "e", "r", "1", "2", "3", "!">>

PwWeak ==
    <<"w", "e", "a", "k", "1", "2", "3">>

EmailJohn ==
    <<"j", "o", "h", "n", ".", "s", "m", "i", "t", "h", "@", "g", "e", "t",
     "c", "o", "v", "e", "r", "e", "d", ".", "i", "o">>

PwJohn ==
    <<"S", "e", "c", "u", "r", "e", "P", "a", "s", "s", "1", "2", "3", "!",
     "@", "#">>

EmailSarah ==
    <<"s", "a", "r", "a", "h", ".", "j", "o", "h", "n", "s", "o", "n", "@",
     "g", "e", "t", "c", "o", "v", "e", "r", "e", "d", ".", "i", "o">>

PwSarah ==
    <<"S", "t", "r", "o", "n", "g", "P", "w", "d", "4", "5", "6", "$", "%",
     "^">>

EmailMichael ==
    <<"m", "i", "c", "h", "a", "e", "l", ".", "b", "r", "o", "w", "n", "@",
     "g", "e", "t", "c", "o", "v", "e", "r", "e", "d", ".", "i", "o">>

PwMichael ==
    <<"C", "o", "m", "p", "l", "e", "x", "K", "e", "y", "7", "8", "9", "&",
     "*", "(", ")">>

EmailEmily ==
    <<"e", "m", "i", "l", "y", ".", "d", "a", "v", "i", "s", "@", "g", "e",
     "t", "c", "o", "v", "e", "r", "e", "d", ".", "i", "o">>

PwEmily ==
    <<"P", "o", "w", "e", "r", "f", "u", "l", "A", "u", "t", "h", "0", "1",
     "2", "!", "@">>

EmailDavid ==
    <<"d", "a", "v", "i", "d", ".", "w", "i", "l", "s", "o", "n", "@", "g",
     "e", "t", "c", "o", "v", "e", "r", "e", "d", ".", "i", "o">>

PwDavid ==
    <<"R", "o", "b", "u", "s", "t", "L", "o", "g", "i", "n", "3", "4", "5",
     "#", "$", "%">>

EmptyString == << >>

(***************************************************************************)
(* Further input strings: the password of the spec's repeated-character    *)
(* scenario and of the schema test, passwords with pairs only, with a run  *)
(* at the very end and with "~" as the only punctuation, and addresses     *)
(* whose local-part is close to the password "Testuser123!".               *)
(***************************************************************************)
PwTriples ==
    <<"a", "a", "a", "B", "B", "B", "1", "1", "1", "!", "!", "!">>

PwRepeated ==
    <<"S", "e", "c", "u", "r", "e", "a", "a", "a", "s", "s", "1", "2", "3",
     "!">>

PwPairs ==
    <<"a", "a", "A", "b", "b", "B", "1", "1", "!", "!", "2", "2">>

PwTailRun ==
    <<"A", "b", "c", "d", "e", "f", "g", "h", "1", "!", "!", "!">>

PwTilde ==
    <<"S", "e", "c", "u", "r", "e", "P", "a", "s", "s", "1", "2", "3", "~">>

PwSimilarSwapped ==
    <<"t", "E", "S", "T", "U", "S", "E", "R", "1", "2", "3", "!">>

EmailTestuse ==
    <<"t", "e", "s", "t", "u", "s", "e", "@", "g", "e", "t", "c", "o", "v",
     "e", "r", "e", "d", ".", "i", "o">>

EmailTESTUSER ==
    <<"T", "E", "S", "T", "U", "S", "E", "R", "@", "g", "e", "t", "c", "o",
     "v", "e", "r", "e", "d", ".", "i", "o">>

EmailTostuser ==
    <<"t", "o", "s", "t", "u", "s", "e", "r", "@", "g", "e", "t", "c", "o",
     "v", "e", "r", "e", "d", ".", "i", "o">>

EmailTwoAts ==
    <<"t", "e", "s", "t", "u", "s", "e", "r", "@", "X", "X", "X", "X", "X",
     "@", "g", "e", "t", "c", "o", "v", "e", "r", "e", "d", ".", "i", "o">>

EmailLongLocal ==
    <<"t", "e", "s", "t", "u", "s", "e", "r", "1", "2", "3", "!", "x", "y",
     "z", "@", "g", "e", "t", "c", "o", "v", "e", "r", "e", "d", ".", "i",
     "o">>

(***************************************************************************)
(* String helpers.                                                         *)
(***************************************************************************)
Min(a, b) == IF a < b THEN a ELSE b

Abs(n) == IF n < 0 THEN -n ELSE n

\* str.endswith(suffix)
endswith(v, suffix) ==
    /\ Len(v) >= Len(suffix)
    /\ SubSeq(v, Len(v) - Len(suffix) + 1, Len(v)) = suffix

\* variant: re.match, which looks at the first character only
search_AtStart(class, v) == Len(v) > 0 /\ v[1] \in class

\* re.search(r'[class]', v): some character of v is in the class
search(class, v) == \E i \in 1..Len(v) : v[i] \in class

\* position of the first "@", or Len(v) + 1 when there is none
FirstAt(v) ==
    IF \E i \in 1..Len(v) : v[i] = "@"
    THEN CHOOSE i \in 1..Len(v) :
            /\ v[i] = "@"
            /\ \A j \in 1..(i - 1) : v[j] # "@"
    ELSE Len(v) + 1

\* v.split('@')[0]
LocalPart(v) == SubSeq(v, 1, FirstAt(v) - 1)

(***************************************************************************)
(* app/schemas.py: UserCreate.                                             *)
(***************************************************************************)
Ok == "ok"

MIN_PASSWORD_LENGTH == 12

MIN_DIFFERENCE == 5

MsgDomain == "Email must be from @getcovered.io domain"
MsgLength == "Password must be at least 12 characters long"
MsgUpper == "Password must contain at least one uppercase letter"
MsgLower == "Password must contain at least one lowercase letter"
MsgNumber == "Password must contain at least one number"
MsgSymbol == "Password must contain at least one symbol"
MsgRepeat == "Password cannot contain 3 or more consecutive repeated characters"
MsgMatch == "Passwords do not match"
MsgDifference == "Password must differ from email local part by at least 5 characters"

\* variant: any address is let through
validate_email_domain_Any(v) == Ok

\* @validator('email')
validate_email_domain(v) ==
    IF ~endswith(v, RequiredDomain) THEN MsgDomain ELSE Ok

\* variant: the length is looked at after the character classes
validate_password_LengthLast(v) ==
    IF ~search(UpperChars, v) THEN MsgUpper
    ELSE IF ~search(LowerChars, v) THEN MsgLower
    ELSE IF ~search(DigitChars, v) THEN MsgNumber
    ELSE IF ~search(SymbolChars, v) THEN MsgSymbol
    ELSE IF Len(v) < MIN_PASSWORD_LENGTH THEN MsgLength
    ELSE IF \E i \in 1..(Len(v) - 2) : v[i] = v[i + 1] /\ v[i + 1] = v[i + 2]
         THEN MsgRepeat
    ELSE Ok

\* variant: the last window of three characters is not looked at
validate_password_RepeatOffByOne(v) ==
    IF Len(v) < MIN_PASSWORD_LENGTH THEN MsgLength
    ELSE IF ~search(UpperChars, v) THEN MsgUpper
    ELSE IF ~search(LowerChars, v) THEN MsgLower
    ELSE IF ~search(DigitChars, v) THEN MsgNumber
    ELSE IF ~search(SymbolChars, v) THEN MsgSymbol
    ELSE IF \E i \in 1..(Len(v) - 3) : v[i] = v[i + 1] /\ v[i + 1] = v[i + 2]
         THEN MsgRepeat
    ELSE Ok

\* @validator('password'): the first failing rule, in the order of the code
validate_password(v) ==
    IF Len(v) < MIN_PASSWORD_LENGTH THEN MsgLength
    ELSE IF ~search(UpperChars, v) THEN MsgUpper
    ELSE IF ~search(LowerChars, v) THEN MsgLower
    ELSE IF ~search(DigitChars, v) THEN MsgNumber
    ELSE IF ~search(SymbolChars, v) THEN MsgSymbol
    ELSE IF \E i \in 1..(Len(v) - 2) : v[i] = v[i + 1] /\ v[i + 1] = v[i + 2]
         THEN MsgRepeat
    ELSE Ok

\* @validator('confirm_password'): values holds the password only when the
\* password validator accepted it
passwords_match(v, password) ==
    IF validate_password(password) = Ok /\ v # password THEN MsgMatch ELSE Ok

\* the errors pydantic collects for a request body, in field order
StructuralErrors(user) ==
    SelectSeq(<<validate_email_domain(user.email),
                validate_password(user.password),
                passwords_match(user.confirm_password, user.password)>>,
              LAMBDA m : m # Ok)

\* variant: the characters are compared as they are
Differences_CaseSensitive(email_local, password) ==
    Cardinality({i \in 1..Min(Len(email_local), Len(password)) :
                    email_local[i] # password[i]})
    + Abs(Len(email_local) - Len(password))

\* differences counted by validate_password_email_difference
Differences(email_local, password) ==
    Cardinality({i \in 1..Min(Len(email_local), Len(password)) :
                    lower(email_local[i]) # lower(password[i])})
    + Abs(Len(email_local) - Len(password))

\* UserCreate.validate_password_email_difference
\* variant: a difference of exactly MIN_DIFFERENCE is rejected too
validate_password_email_difference_AtMost(user) ==
    IF Differences(LocalPart(user.email), user.password) <= MIN_DIFFERENCE
    THEN MsgDifference
    ELSE Ok

validate_password_email_difference(user) ==
    IF Differences(LocalPart(user.email), user.password) < MIN_DIFFERENCE
    THEN MsgDifference
    ELSE Ok

(***************************************************************************)
(* Credential hasher (app/auth.py).  A digest is opaque: it records the    *)
(* password it was made from and the salt drawn for it.                    *)
(***************************************************************************)
\* variant: no salt is drawn
get_password_hash_Unsalted(password, salt) == [pw |-> password, salt |-> 0]

get_password_hash(password, salt) == [pw |-> password, salt |-> salt]

\* variant: the comparison ignores letter case
verify_password_IgnoreCase(plain_password, hashed_password) ==
    LowerCase(hashed_password.pw) = LowerCase(plain_password)

verify_password(plain_password, hashed_password) ==
    hashed_password.pw = plain_password

(***************************************************************************)
(* Token service (app/auth.py).  A token carries its claims and the key    *)
(* and algorithm it was signed with; a string that is no token at all is   *)
(* a record without claims.                                                *)
(***************************************************************************)
NoDelta == << >>

\* variant: the explicit lifetime is ignored
create_access_token_AlwaysDefault(data, expires_delta, t) ==
    [claims |-> data @@ [exp |-> t + ACCESS_TOKEN_EXPIRE_MINUTES],
     key |-> SECRET_KEY,
     alg |-> ALGORITHM]

\* create_access_token(data, expires_delta) called at time t; data is the
\* claim set handed in by the caller
create_access_token(data, expires_delta, t) ==
    [claims |-> data @@ [exp |-> t + (IF expires_delta = NoDelta
                                       THEN ACCESS_TOKEN_EXPIRE_MINUTES
                                       ELSE expires_delta[1])],
     key |-> SECRET_KEY,
     alg |-> ALGORITHM]

MalformedToken == [raw |-> "invalid_token_string"]

WellFormed(token) == "claims" \in DOMAIN token

SignatureValid(token) ==
    /\ WellFormed(token)
    /\ token.key = SECRET_KEY
    /\ token.alg = ALGORITHM

\* variant: a token is still good at its expiry instant
Expired_Strict(token, t) == token.claims.exp < t

\* the expiry instant has been reached
Expired(token, t) == token.claims.exp <= t

HasSubject(token) == "sub" \in DOMAIN token.claims

\* variant: the expiry is not validated
TokenAccepted_IgnoreExpiry(token, t) ==
    /\ SignatureValid(token)
    /\ HasSubject(token)

\* jwt.decode succeeds and the payload has a subject
TokenAccepted(token, t) ==
    /\ SignatureValid(token)
    /\ ~Expired(token, t)
    /\ HasSubject(token)

(***************************************************************************)
(* Responses.                                                              *)
(***************************************************************************)
NoHeaders == "none"

BearerHeaders == "WWW-Authenticate: Bearer"

NoBody == [kind |-> "none"]

Response(status, detail, headers, body) ==
    [status |-> status, detail |-> detail, headers |-> headers, body |-> body]

HTTPException(status, detail, headers) ==
    Response(status, detail, headers, NoBody)

\* credentials_exception of app/auth.py
Unauthenticated ==
    HTTPException(401, "Could not validate credentials", BearerHeaders)

\* raised by the HTTPBearer scheme when the request has no credentials
NotAuthenticated == HTTPException(403, "Not authenticated", NoHeaders)

\* the exception login_user raises
InvalidCredentials ==
    HTTPException(401, "Incorrect email or password", BearerHeaders)

\* variant: the duplicate is reported as a conflict
DuplicateIdentity_Conflict ==
    HTTPException(409, "Email already registered", NoHeaders)

DuplicateIdentity == HTTPException(400, "Email already registered", NoHeaders)

\* an exception no handler catches
InternalServerError == HTTPException(500, "Internal Server Error", NoHeaders)

\* the body FastAPI builds from pydantic's errors
ValidationError(errors) ==
    Response(422, "validation error", NoHeaders,
             [kind |-> "errors", errors |-> errors])

\* variant: the digest is part of the view
UserResponse_WithDigest(user) ==
    [kind |-> "user", id |-> user.id, first_name |-> user.first_name,
     last_name |-> user.last_name, email |-> user.email,
     created_at |-> user.created_at, hashed_password |-> user.hashed_password]

\* response_model=UserResponse
UserResponse(user) ==
    [kind |-> "user", id |-> user.id, first_name |-> user.first_name,
     last_name |-> user.last_name, email |-> user.email,
     created_at |-> user.created_at]

\* verify_token(credentials): the subject, or the credentials exception
verify_token(token, t) ==
    IF TokenAccepted(token, t)
    THEN [ok |-> TRUE, sub |-> token.claims.sub]
    ELSE [ok |-> FALSE, error |-> Unauthenticated]

(***************************************************************************)
(* State.                                                                  *)
(***************************************************************************)
VARIABLES
    users,      \* the rows of the users table
    now,        \* the clock, in minutes
    tokens,     \* the tokens clients hold
    ticks,      \* how often the clock has advanced
    digests,    \* the digests that direct callers of the hasher hold
    pc,         \* per request slot: where its handler stands
    req,        \* per request slot: the request being served
    last        \* the response sent last in the current minute, with the
                \* request it answered

vars == <<users, now, tokens, ticks, digests, pc, req, last>>

Procs == 1..NumProcs

NoRequest == [op |-> "none"]

NoResponse == Response(0, "none", NoHeaders, NoBody)

NoReply ==
    [op |-> "none", input |-> NoRequest, why |-> "none",
     response |-> NoResponse]

Null == << >>

(***************************************************************************)
(* The users table (app/models.py): autoincrement id, unique email,        *)
(* created_at set on insert, updated_at set on update.                     *)
(***************************************************************************)
Emails(rows) == {u.email : u \in rows}

\* db.query(User).filter(User.email == email): the matching rows
filter_by_email(email) == {u \in users : u.email = email}

\* .first(): the matching row with the lowest id
first(rows) == CHOOSE u \in rows : \A v \in rows : u.id <= v.id

MaxId == IF users = {} THEN 0
         ELSE CHOOSE n \in {u.id : u \in users} : \A u \in users : u.id <= n

\* the rows a session flushes for the pending users, in insertion order
NewRows(pending) ==
    {[id |-> MaxId + i,
      first_name |-> pending[i].first_name,
      last_name |-> pending[i].last_name,
      email |-> pending[i].email,
      hashed_password |-> pending[i].hashed_password,
      created_at |-> now,
      updated_at |-> Null] : i \in 1..Len(pending)}

\* variant: the table has no unique constraint on email
IntegrityError_Off(pending) == FALSE

\* the unique constraint on users.email rejects the commit
IntegrityError(pending) ==
    \/ \E i \in 1..Len(pending) : pending[i].email \in Emails(users)
    \/ \E i, j \in 1..Len(pending) : i # j /\ pending[i].email = pending[j].email

\* the hasher draws a salt that no stored digest uses; a call that needs
\* several takes the following ones
FreshSalt ==
    LET used == {u.hashed_password.salt : u \in users}
                \cup {d.hashed.salt : d \in digests}
    IN  1 + (IF used = {} THEN 0
             ELSE CHOOSE n \in used : \A m \in used : m <= n)

\* variant: a missing user is reported as not found
get_current_user_NotFound(email) ==
    IF filter_by_email(email) = {}
    THEN [ok |-> FALSE, error |-> HTTPException(404, "User not found", NoHeaders)]
    ELSE [ok |-> TRUE, user |-> first(filter_by_email(email))]

\* variant: the query is not filtered by email
get_current_user_Unfiltered(email) ==
    IF users = {}
    THEN [ok |-> FALSE, error |-> Unauthenticated]
    ELSE [ok |-> TRUE, user |-> first(users)]

\* get_current_user(email, db): the user, or the credentials exception
get_current_user(email) ==
    IF filter_by_email(email) = {}
    THEN [ok |-> FALSE, error |-> Unauthenticated]
    ELSE [ok |-> TRUE, user |-> first(filter_by_email(email))]

\* the dependency chain HTTPBearer -> verify_token -> get_current_user
Authenticate(credentials) ==
    IF credentials.scheme # "Bearer"
    THEN [ok |-> FALSE, error |-> NotAuthenticated]
    ELSE IF ~verify_token(credentials.credentials, now).ok
    THEN [ok |-> FALSE, error |-> Unauthenticated]
    ELSE get_current_user(verify_token(credentials.credentials, now).sub)

(***************************************************************************)
(* Inputs.                                                                 *)
(***************************************************************************)
RegisterNames == {<<"John", "Doe">>}

UpdateNames == {<<"Jane", "Smith">>}

UserCreate(n, e, pw, c) ==
    [first_name |-> n[1], last_name |-> n[2], email |-> e, password |-> pw,
     confirm_password |-> c]

\* request bodies: two acceptable ones, one per rule that can reject; the
\* one with the wrong confirmation also has a password close to its
\* local-part
UserCreates ==
    {UserCreate(n, EmailTestuser, PwJohn, PwJohn) : n \in RegisterNames}
    \cup {UserCreate(n, EmailJohn, PwSimilar, PwSimilar) : n \in RegisterNames}
    \cup {UserCreate(n, EmailTestuser, PwSimilar, PwSimilar) : n \in RegisterNames}
    \cup {UserCreate(n, EmailGmail, PwJohn, PwJohn) : n \in RegisterNames}
    \cup {UserCreate(n, EmailTestuser, PwWeak, PwWeak) : n \in RegisterNames}
    \cup {UserCreate(n, EmailTestuser, PwSimilar, PwJohn) : n \in RegisterNames}

UserLogin(e, pw) == [email |-> e, password |-> pw]

\* login bodies: right and wrong passwords, unknown and empty addresses
UserLogins ==
    {UserLogin(EmailTestuser, PwJohn), UserLogin(EmailTestuser, PwSimilar),
     UserLogin(EmailJohn, PwJohn), UserLogin(EmailJohn, EmptyString),
     UserLogin(EmptyString, EmptyString)}

UserUpdates == {[first_name |-> n[1], last_name |-> n[2]] : n \in UpdateNames}

\* direct calls of create_access_token: the claim set and the lifetime
TokenCalls ==
    {<<[sub |-> EmailTestuser], l>> : l \in {<<-1>>, <<0>>, <<1>>, NoDelta}}
    \cup {<<[sub |-> EmailJohn], <<1>>>>, <<[user |-> EmailTestuser], <<1>>>>}

\* a token signed with another secret (jwt.encode(data, "wrong_secret"))
ForgedToken ==
    [claims |-> [sub |-> EmailTestuser], key |-> "wrong_secret",
     alg |-> ALGORITHM]

NoCredentials == [scheme |-> "none"]

Bearer(token) == [scheme |-> "Bearer", credentials |-> token]

\* what a client may put in the Authorization header: nothing, something
\* that is no token, or a token it holds
Credentials ==
    {NoCredentials, Bearer(MalformedToken)}
    \cup {Bearer(t.token) : t \in tokens}

\* the same, or a token somebody else signed
AnyCredentials == Credentials \cup {Bearer(ForgedToken)}

(***************************************************************************)
(* Initial state: empty table, nothing in flight.                          *)
(***************************************************************************)
Init ==
    /\ users = {}
    /\ now = 0
    /\ tokens = {}
    /\ pc = [p \in Procs |-> "idle"]
    /\ req = [p \in Procs |-> NoRequest]
    /\ ticks = 0
    /\ digests = {}
    /\ last = NoReply

\* a request is handed to the first free slot
Idle(p) ==
    /\ pc[p] = "idle"
    /\ \A q \in Procs : q < p => pc[q] # "idle"

\* the handler of slot p answers and the slot becomes idle
Reply(p, response, op, input, why) ==
    /\ last' = [op |-> op, input |-> input, why |-> why,
                response |-> response]
    /\ pc' = [pc EXCEPT ![p] = "idle"]
    /\ req' = [req EXCEPT ![p] = NoRequest]

(***************************************************************************)
(* POST /register (register_user).  The body is validated by UserCreate    *)
(* before the handler runs; the handler checks the difference rule, looks  *)
(* the email up, and in a second database step inserts and commits.        *)
(***************************************************************************)
\* variant: the email is looked up before the difference check
RegisterBegin_LookupFirst(p, user) ==
    /\ Idle(p)
    /\ UNCHANGED <<users, now, tokens, ticks, digests>>
    /\ IF StructuralErrors(user) # << >>
       THEN Reply(p, ValidationError(StructuralErrors(user)), "register", user,
                  "structural")
       ELSE IF filter_by_email(user.email) # {}
       THEN Reply(p, DuplicateIdentity, "register", user, "duplicate")
       ELSE IF validate_password_email_difference(user) # Ok
       THEN Reply(p, HTTPException(400, validate_password_email_difference(user),
                                   NoHeaders),
                  "register", user, "difference")
       ELSE /\ pc' = [pc EXCEPT ![p] = "register_insert"]
            /\ req' = [req EXCEPT ![p] = user]
            /\ UNCHANGED last

RegisterBegin(p, user) ==
    /\ Idle(p)
    /\ UNCHANGED <<users, now, tokens, ticks, digests>>
    /\ IF StructuralErrors(user) # << >>
       THEN Reply(p, ValidationError(StructuralErrors(user)), "register", user,
                  "structural")
       ELSE IF validate_password_email_difference(user) # Ok
       THEN Reply(p, HTTPException(400, validate_password_email_difference(user),
                                   NoHeaders),
                  "register", user, "difference")
       ELSE IF filter_by_email(user.email) # {}
       THEN Reply(p, DuplicateIdentity, "register", user, "duplicate")
       ELSE /\ pc' = [pc EXCEPT ![p] = "register_insert"]
            /\ req' = [req EXCEPT ![p] = user]
            /\ UNCHANGED last

\* variant: the names are stored in each other's column
RegisterPending_NamesSwapped(user, salt) ==
    <<[first_name |-> user.last_name,
       last_name |-> user.first_name,
       email |-> user.email,
       hashed_password |-> get_password_hash(user.password, salt)]>>

\* the User object register_user builds
RegisterPending(user, salt) ==
    <<[first_name |-> user.first_name,
       last_name |-> user.last_name,
       email |-> user.email,
       hashed_password |-> get_password_hash(user.password, salt)]>>

\* variant: the row of a commit that fails stays in the table
RegisterCommit_RowLeftBehind(p) ==
    /\ pc[p] = "register_insert"
    /\ UNCHANGED <<now, tokens, ticks, digests>>
    /\ LET pending == RegisterPending(req[p], FreshSalt) IN
       IF IntegrityError(pending)
       THEN /\ users' = users \cup NewRows(pending)
            /\ Reply(p, InternalServerError, "register", req[p], "IntegrityError")
       ELSE /\ users' = users \cup NewRows(pending)
            /\ Reply(p, Response(201, "created", NoHeaders,
                                 UserResponse(CHOOSE u \in NewRows(pending) : TRUE)),
                     "register", req[p], "created")

RegisterCommit(p) ==
    /\ pc[p] = "register_insert"
    /\ UNCHANGED <<now, tokens, ticks, digests>>
    /\ LET pending == RegisterPending(req[p], FreshSalt) IN
       IF IntegrityError(pending)
       THEN /\ UNCHANGED users
            /\ Reply(p, InternalServerError, "register", req[p], "IntegrityError")
       ELSE /\ users' = users \cup NewRows(pending)
            /\ Reply(p, Response(201, "created", NoHeaders,
                                 UserResponse(CHOOSE u \in NewRows(pending) : TRUE)),
                     "register", req[p], "created")

(***************************************************************************)
(* POST /admin-init-db-x7k9m2p4 (initialize_database_with_test_data).      *)
(***************************************************************************)
fake_users ==
    <<[first_name |-> "John", last_name |-> "Smith", email |-> EmailJohn,
       password |-> PwJohn],
      [first_name |-> "Sarah", last_name |-> "Johnson", email |-> EmailSarah,
       password |-> PwSarah],
      [first_name |-> "Michael", last_name |-> "Brown", email |-> EmailMichael,
       password |-> PwMichael],
      [first_name |-> "Emily", last_name |-> "Davis", email |-> EmailEmily,
       password |-> PwEmily],
      [first_name |-> "David", last_name |-> "Wilson", email |-> EmailDavid,
       password |-> PwDavid]>>

InitDbRequest == [op |-> "init-db"]

InitDbBegin(p) ==
    /\ Idle(p)
    /\ UNCHANGED <<users, now, tokens, ticks, digests>>
    /\ IF Cardinality(users) > 0
       THEN Reply(p, HTTPException(400, "Database already initialized", NoHeaders),
                  "init-db", InitDbRequest, "not empty")
       ELSE /\ pc' = [pc EXCEPT ![p] = "init_insert"]
            /\ req' = [req EXCEPT ![p] = InitDbRequest]
            /\ UNCHANGED last

\* the User objects the loop adds to the session
InitDbPending(salt) ==
    [i \in 1..Len(fake_users) |->
        [first_name |-> fake_users[i].first_name,
         last_name |-> fake_users[i].last_name,
         email |-> fake_users[i].email,
         hashed_password |-> get_password_hash(fake_users[i].password,
                                               salt + i - 1)]]

InitDbCommit(p) ==
    /\ pc[p] = "init_insert"
    /\ UNCHANGED <<now, tokens, ticks, digests>>
    /\ LET pending == InitDbPending(FreshSalt) IN
       IF IntegrityError(pending)
       THEN /\ UNCHANGED users
            /\ Reply(p, HTTPException(500, "Initialization failed", NoHeaders),
                     "init-db", InitDbRequest, "IntegrityError")
       ELSE /\ users' = users \cup NewRows(pending)
            /\ Reply(p, Response(200, "Database initialized", NoHeaders,
                                 [kind |-> "init", count |-> Len(pending)]),
                     "init-db", InitDbRequest, "initialized")

(***************************************************************************)
(* POST /login (login_user).                                               *)
(***************************************************************************)
\* clients keep a token, with the time and lifetime it was issued with,
\* while they have room for it
Keep(token, life) ==
    IF Cardinality(tokens \cup {[token |-> token, iat |-> now, life |-> life]})
           <= MaxTokens
    THEN tokens \cup {[token |-> token, iat |-> now, life |-> life]}
    ELSE tokens

\* variant: the password is not verified
LoginDenied_NoVerify(user_credentials) ==
    filter_by_email(user_credentials.email) = {}

LoginDenied(user_credentials) ==
    \/ filter_by_email(user_credentials.email) = {}
    \/ ~verify_password(user_credentials.password,
                        first(filter_by_email(user_credentials.email)).hashed_password)

LoginToken(user_credentials) ==
    create_access_token(
        [sub |-> first(filter_by_email(user_credentials.email)).email],
        <<ACCESS_TOKEN_EXPIRE_MINUTES>>, now)

\* variant: an unknown email gets its own message
Login_Leaky(p, user_credentials) ==
    /\ Idle(p)
    /\ UNCHANGED <<users, now, ticks, digests>>
    /\ IF filter_by_email(user_credentials.email) = {}
       THEN /\ UNCHANGED tokens
            /\ Reply(p, HTTPException(401, "Email not registered", BearerHeaders),
                     "login", user_credentials, "unknown email")
       ELSE IF LoginDenied(user_credentials)
       THEN /\ UNCHANGED tokens
            /\ Reply(p, InvalidCredentials, "login", user_credentials,
                     "wrong password")
       ELSE /\ tokens' = Keep(LoginToken(user_credentials),
                              ACCESS_TOKEN_EXPIRE_MINUTES)
            /\ Reply(p, Response(200, "ok", NoHeaders,
                                 [kind |-> "token",
                                  access_token |-> LoginToken(user_credentials),
                                  token_type |-> "bearer"]),
                     "login", user_credentials, "verified")

Login(p, user_credentials) ==
    /\ Idle(p)
    /\ UNCHANGED <<users, now, ticks, digests>>
    /\ IF LoginDenied(user_credentials)
       THEN /\ UNCHANGED tokens
            /\ Reply(p, InvalidCredentials, "login", user_credentials,
                     IF filter_by_email(user_credentials.email) = {}
                     THEN "unknown email" ELSE "wrong password")
       ELSE /\ tokens' = Keep(LoginToken(user_credentials),
                            ACCESS_TOKEN_EXPIRE_MINUTES)
            /\ Reply(p, Response(200, "ok", NoHeaders,
                                 [kind |-> "token",
                                  access_token |-> LoginToken(user_credentials),
                                  token_type |-> "bearer"]),
                     "login", user_credentials, "verified")

(***************************************************************************)
(* GET /profile (get_profile).                                             *)
(***************************************************************************)
AuthFailure(credentials) ==
    IF credentials.scheme # "Bearer" THEN "no credentials"
    ELSE IF ~WellFormed(credentials.credentials) THEN "malformed"
    ELSE IF ~SignatureValid(credentials.credentials) THEN "signature"
    ELSE IF Expired(credentials.credentials, now) THEN "expired"
    ELSE IF ~HasSubject(credentials.credentials) THEN "no subject"
    ELSE "no identity"

GetProfile(p, credentials) ==
    /\ Idle(p)
    /\ UNCHANGED <<users, now, tokens, ticks, digests>>
    /\ IF ~Authenticate(credentials).ok
       THEN Reply(p, Authenticate(credentials).error, "get-profile", credentials,
                  AuthFailure(credentials))
       ELSE Reply(p, Response(200, "ok", NoHeaders,
                              UserResponse(Authenticate(credentials).user)),
                  "get-profile", credentials, "resolved")

(***************************************************************************)
(* verify_token called directly with bearer credentials, as the tests do.  *)
(***************************************************************************)
VerifyToken(p, credentials) ==
    /\ Idle(p)
    /\ credentials.scheme = "Bearer"
    /\ UNCHANGED <<users, now, tokens, ticks, digests>>
    /\ IF ~verify_token(credentials.credentials, now).ok
       THEN Reply(p, verify_token(credentials.credentials, now).error,
                  "verify-token", credentials, AuthFailure(credentials))
       ELSE Reply(p, Response(200, "ok", NoHeaders,
                              [kind |-> "subject",
                               sub |-> verify_token(credentials.credentials, now).sub]),
                  "verify-token", credentials, "verified")

(***************************************************************************)
(* PUT /profile (update_profile).  The dependency loads the caller's row   *)
(* into the request's session; the handler assigns the names to the loaded *)
(* object and commits in a second database step.  The commit flushes an    *)
(* UPDATE of the columns whose assigned value differs from the loaded one, *)
(* and no statement when none differs; the refresh then reads the row back.*)
(***************************************************************************)
\* variant: every authentication failure is answered 401
UpdateBegin_Always401(p, credentials, user_update) ==
    /\ Idle(p)
    /\ UNCHANGED <<users, now, tokens, ticks, digests>>
    /\ IF ~Authenticate(credentials).ok
       THEN Reply(p, Unauthenticated, "update-profile",
                  credentials, AuthFailure(credentials))
       ELSE /\ pc' = [pc EXCEPT ![p] = "update_commit"]
            /\ req' = [req EXCEPT ![p] =
                          [op |-> "update-profile",
                           credentials |-> credentials,
                           id |-> Authenticate(credentials).user.id,
                           loaded |->
                               [first_name |-> Authenticate(credentials).user.first_name,
                                last_name |-> Authenticate(credentials).user.last_name],
                           first_name |-> user_update.first_name,
                           last_name |-> user_update.last_name]]
            /\ UNCHANGED last

UpdateBegin(p, credentials, user_update) ==
    /\ Idle(p)
    /\ UNCHANGED <<users, now, tokens, ticks, digests>>
    /\ IF ~Authenticate(credentials).ok
       THEN Reply(p, Authenticate(credentials).error, "update-profile",
                  credentials, AuthFailure(credentials))
       ELSE /\ pc' = [pc EXCEPT ![p] = "update_commit"]
            /\ req' = [req EXCEPT ![p] =
                          [op |-> "update-profile",
                           credentials |-> credentials,
                           id |-> Authenticate(credentials).user.id,
                           loaded |->
                               [first_name |-> Authenticate(credentials).user.first_name,
                                last_name |-> Authenticate(credentials).user.last_name],
                           first_name |-> user_update.first_name,
                           last_name |-> user_update.last_name]]
            /\ UNCHANGED last

\* the columns the flush writes: those assigned a value other than the
\* loaded one
Dirty(r) ==
    {c \in {"first_name", "last_name"} : r[c] # r.loaded[c]}

\* variant: the flush writes every assigned column
Updated_AllAssigned(u, r) ==
    [u EXCEPT !.first_name = r.first_name, !.last_name = r.last_name,
              !.updated_at = <<now>>]

\* variant: the UPDATE also resets the digest
Updated_DigestReset(u, r) ==
    IF Dirty(r) = {} THEN u
    ELSE [u EXCEPT !.first_name = IF "first_name" \in Dirty(r)
                                  THEN r.first_name ELSE @,
                   !.last_name = IF "last_name" \in Dirty(r)
                                 THEN r.last_name ELSE @,
                   !.hashed_password = get_password_hash(EmptyString, 0),
                   !.updated_at = <<now>>]

\* variant: the row is replaced by a new one with the next id
Updated_Reinserted(u, r) ==
    IF Dirty(r) = {} THEN u
    ELSE [u EXCEPT !.id = MaxId + 1,
                   !.first_name = IF "first_name" \in Dirty(r)
                                  THEN r.first_name ELSE @,
                   !.last_name = IF "last_name" \in Dirty(r)
                                 THEN r.last_name ELSE @,
                   !.updated_at = <<now>>]

\* the row after the commit: the UPDATE, when there is one, also stamps
\* updated_at
Updated(u, r) ==
    IF Dirty(r) = {} THEN u
    ELSE [u EXCEPT !.first_name = IF "first_name" \in Dirty(r)
                                  THEN r.first_name ELSE @,
                   !.last_name = IF "last_name" \in Dirty(r)
                                 THEN r.last_name ELSE @,
                   !.updated_at = <<now>>]

\* variant: the UPDATE has no WHERE clause
UpdateCommit_EveryRow(p) ==
    /\ pc[p] = "update_commit"
    /\ UNCHANGED <<now, tokens, ticks, digests>>
    /\ users' = {Updated(u, req[p]) : u \in users}
    /\ Reply(p, Response(200, "ok", NoHeaders,
                         UserResponse(Updated(CHOOSE u \in users : u.id = req[p].id,
                                              req[p]))),
             "update-profile", req[p], "updated")

UpdateCommit(p) ==
    /\ pc[p] = "update_commit"
    /\ UNCHANGED <<now, tokens, ticks, digests>>
    /\ users' = {IF u.id = req[p].id THEN Updated(u, req[p]) ELSE u : u \in users}
    /\ Reply(p, Response(200, "ok", NoHeaders,
                         UserResponse(Updated(CHOOSE u \in users : u.id = req[p].id,
                                              req[p]))),
             "update-profile", req[p], "updated")

(***************************************************************************)
(* create_access_token called directly, as the tests and scripts do.       *)
(***************************************************************************)
LifeOf(expires_delta) ==
    IF expires_delta = NoDelta THEN ACCESS_TOKEN_EXPIRE_MINUTES
    ELSE expires_delta[1]

CreateAccessToken(data, expires_delta) ==
    /\ Cardinality(tokens) < MaxTokens
    /\ tokens' = Keep(create_access_token(data, expires_delta, now),
                      LifeOf(expires_delta))
    /\ UNCHANGED <<users, now, ticks, digests, pc, req, last>>

(***************************************************************************)
(* Time passes: a minute, or just under a token lifetime.  The response    *)
(* of an earlier minute is no longer the current one.                      *)
(***************************************************************************)
ClockSteps == {1, ACCESS_TOKEN_EXPIRE_MINUTES - 1}

Tick(d) ==
    /\ ticks < MaxTicks
    /\ now + d <= MaxClock
    /\ now' = now + d
    /\ ticks' = ticks + 1
    /\ last' = NoReply
    /\ UNCHANGED <<users, tokens, digests, pc, req>>

(***************************************************************************)
(* The request-handling system: the handlers of the router, served         *)
(* concurrently.                                                           *)
(***************************************************************************)
Next ==
    \/ \E p \in Procs, user \in UserCreates : RegisterBegin(p, user)
    \/ \E p \in Procs : RegisterCommit(p)
    \/ \E p \in Procs : InitDbBegin(p)
    \/ \E p \in Procs : InitDbCommit(p)
    \/ \E p \in Procs, c \in UserLogins : Login(p, c)
    \/ \E p \in Procs, c \in Credentials : GetProfile(p, c)
    \/ \E p \in Procs, c \in Credentials, u \in UserUpdates : UpdateBegin(p, c, u)
    \/ \E p \in Procs : UpdateCommit(p)

Spec == Init /\ [][Next]_vars

(***************************************************************************)
(* The token life cycle: one registered user, tokens issued by login and   *)
(* by direct calls of create_access_token, presented one request at a time *)
(* as time passes.                                                         *)
(***************************************************************************)
Client == CHOOSE p \in Procs : \A q \in Procs : p <= q

InitToken ==
    /\ users = {[id |-> 1, first_name |-> "John", last_name |-> "Doe",
                 email |-> EmailTestuser,
                 hashed_password |-> get_password_hash(PwJohn, 1),
                 created_at |-> 0, updated_at |-> Null]}
    /\ now = 0
    /\ tokens = {}
    /\ ticks = 0
    /\ digests = {}
    /\ pc = [p \in Procs |-> "idle"]
    /\ req = [p \in Procs |-> NoRequest]
    /\ last = NoReply

NextToken ==
    \/ \E c \in TokenCalls : CreateAccessToken(c[1], c[2])
    \/ \E c \in UserLogins : Login(Client, c)
    \/ \E c \in AnyCredentials : VerifyToken(Client, c)
    \/ \E c \in AnyCredentials : GetProfile(Client, c)
    \/ \E d \in ClockSteps : Tick(d)

SpecToken == InitToken /\ [][NextToken]_vars

(***************************************************************************)
(* The credential hasher called directly, as tests/test_auth.py does:      *)
(* get_password_hash on one of a few passwords, the digest kept by the     *)
(* caller, and verify_password on any password against a kept digest.      *)
(***************************************************************************)
HashPasswords == {PwJohn, PwSimilar, LowerCase(PwSimilar), PwWeak}

\* hashed = get_password_hash(password); the caller keeps the digest
GetPasswordHash(password) ==
    /\ Cardinality(digests) < MaxDigests
    /\ digests' = digests \cup
                   {[call |-> Cardinality(digests) + 1,
                     password |-> password,
                     hashed |-> get_password_hash(password, FreshSalt)]}
    /\ UNCHANGED <<users, now, tokens, ticks, pc, req, last>>

\* verify_password(plain_password, hashed) on a kept digest
VerifyPassword(plain_password, d) ==
    /\ last' = [op |-> "verify-password",
                input |-> [plain_password |-> plain_password, digest |-> d],
                why |-> "returned",
                response |-> Response(200, "ok", NoHeaders,
                                      [kind |-> "bool",
                                       value |-> verify_password(plain_password,
                                                                 d.hashed)])]
    /\ UNCHANGED <<users, now, tokens, ticks, digests, pc, req>>

NextHash ==
    \/ \E password \in HashPasswords : GetPasswordHash(password)
    \/ \E plain_password \in HashPasswords, d \in digests :
            VerifyPassword(plain_password, d)

SpecHash == Init /\ [][NextHash]_vars

(***************************************************************************)
(* UserCreate constructed directly, and validate_password_email_difference *)
(* called on an instance, as tests/test_schemas.py does.  Passwords are    *)
(* put together from one part per character class (none, a pair, three     *)
(* pairs, a triple; for punctuation also a pair of "~"), so that every     *)
(* combination of missing classes occurs at lengths below and above the    *)
(* minimum, with and without a run.                                        *)
(***************************************************************************)
UpperParts ==
    {<< >>,
     <<"Q", "W">>,
     <<"Q", "W", "Q", "W", "Q", "W">>,
     <<"Q", "Q", "Q">>}

LowerParts ==
    {<< >>,
     <<"e", "r">>,
     <<"e", "r", "e", "r", "e", "r">>,
     <<"e", "e", "e">>}

DigitParts ==
    {<< >>,
     <<"1", "2">>,
     <<"1", "2", "1", "2", "1", "2">>,
     <<"1", "1", "1">>}

SymbolParts ==
    {<< >>,
     <<"!", "?">>,
     <<"!", "?", "!", "?", "!", "?">>,
     <<"!", "!", "!">>,
     <<"~", "~">>}

SchemaPasswords ==
    {u \o l \o d \o y : u \in UpperParts, l \in LowerParts,
                         d \in DigitParts, y \in SymbolParts}
    \cup {PwJohn, PwSimilar, PwWeak, PwTriples, PwRepeated, PwPairs,
          PwTailRun, PwTilde}

\* bodies handed to UserCreate(**data): either domain, every password, the
\* confirmation equal to it or differing in letter case
SchemaCandidates ==
    {UserCreate(n, e, pw, pw) :
        n \in RegisterNames, e \in {EmailTestuser, EmailGmail},
        pw \in SchemaPasswords}
    \cup {UserCreate(n, e, pw, LowerCase(pw)) :
        n \in RegisterNames, e \in {EmailTestuser, EmailGmail},
        pw \in SchemaPasswords}

\* instances whose password is close to the local-part of the address
SimilarCandidates ==
    {UserCreate(n, e, pw, pw) :
        n \in RegisterNames,
        e \in {EmailTestuser, EmailTestuse, EmailTESTUSER, EmailTostuser,
               EmailTwoAts, EmailLongLocal, EmailJohn},
        pw \in {PwSimilar, PwSimilarSwapped, PwJohn}}

\* UserCreate(**data) at the start of a test: the instance, or pydantic's
\* ValidationError
Validate(user) ==
    /\ last = NoReply
    /\ last' = [op |-> "validate", input |-> user,
                why |-> IF StructuralErrors(user) = << >>
                        THEN "accepted" ELSE "rejected",
                response |-> IF StructuralErrors(user) = << >>
                             THEN NoResponse
                             ELSE ValidationError(StructuralErrors(user))]
    /\ UNCHANGED <<users, now, tokens, ticks, digests, pc, req>>

\* user.validate_password_email_difference() on the instance just
\* constructed: returns, or raises ValueError with the message
DifferenceCheck(user) ==
    /\ last.op = "validate"
    /\ last.why = "accepted"
    /\ last.input = user
    /\ last' = [op |-> "difference-check", input |-> user,
                why |-> validate_password_email_difference(user),
                response |-> NoResponse]
    /\ UNCHANGED <<users, now, tokens, ticks, digests, pc, req>>

NextSchema ==
    \/ \E user \in SchemaCandidates \cup SimilarCandidates : Validate(user)
    \/ \E user \in SchemaCandidates \cup SimilarCandidates :
            DifferenceCheck(user)

SpecSchema == Init /\ [][NextSchema]_vars

(***************************************************************************)
(* Properties.                                                             *)
(***************************************************************************)

\* C1: in every reachable state of the store, whatever handlers have run
\* and however they interleaved, no two stored identities share an email.
C1_EmailUnique ==
    \A u, v \in users : u.email = v.email => u = v

\* a second insert of a stored email was attempted and the store still
\* holds that email once
W1_SecondInsertRejected ==
    /\ last.op = "register"
    /\ last.why = "IntegrityError"
    /\ Cardinality(filter_by_email(last.input.email)) = 1

\* a register request answered at its lookup step (no insert attempted)
\* for a structurally valid body whose email the store already held
RegisterOfStoredEmail ==
    /\ last' # last
    /\ pc' = pc
    /\ last'.op = "register"
    /\ StructuralErrors(last'.input) = << >>
    /\ last'.input.email \in Emails(users)

\* C2 as stated: register with a structurally valid body whose email is
\* already stored fails with 400 "Email already registered" and leaves the
\* store unchanged.
X2_DuplicateForEveryValidBody ==
    [][RegisterOfStoredEmail =>
          /\ last'.response.status = 400
          /\ last'.response.detail = "Email already registered"
          /\ users' = users]_vars

\* C2 amended: register with a structurally valid body that passes the
\* password/email difference check and whose email is already stored fails
\* with 400 "Email already registered" and leaves the store unchanged.
C2_DuplicateRejected ==
    [][(RegisterOfStoredEmail
        /\ validate_password_email_difference(last'.input) = Ok) =>
          /\ last'.response.status = 400
          /\ last'.response.detail = "Email already registered"
          /\ users' = users]_vars

W2_DuplicateAnswered ==
    /\ last.op = "register"
    /\ last.why = "duplicate"
    /\ last.response.status = 400
    /\ Cardinality(filter_by_email(last.input.email)) = 1

\* C3: when the commit of a register request hits the unique constraint
\* (two requests for one email passed the lookup before either inserted),
\* the request is answered 400 "Email already registered", never with a
\* storage fault.
X3_IntegrityErrorTranslated ==
    (last.op = "register" /\ last.why = "IntegrityError") =>
        /\ last.response.status = 400
        /\ last.response.detail = "Email already registered"

\* C4: every failed login gets the same response, 401 "Incorrect email or
\* password" with the same headers, whether the email is unknown or the
\* password is wrong, empty strings included.
C4_LoginFailureUniform ==
    (last.op = "login" /\ last.response.status # 200) =>
        last.response = [status |-> 401,
                         detail |-> "Incorrect email or password",
                         headers |-> "WWW-Authenticate: Bearer",
                         body |-> [kind |-> "none"]]

\* a login for a stored email failed on the password
W4_WrongPasswordForStoredEmail ==
    /\ last.op = "login"
    /\ last.response.status = 401
    /\ last.input.password # EmptyString
    /\ filter_by_email(last.input.email) # {}

\* C5: login answers with a token only if an identity with the given email
\* is stored and the given password verifies against its digest; the
\* token's subject is that email and its expiry is the issue time plus
\* ACCESS_TOKEN_EXPIRE_MINUTES.
C5_LoginIssuesOnlyVerified ==
    (last.op = "login" /\ last.response.body.kind = "token") =>
        /\ last.response.status = 200
        /\ \E u \in users :
              /\ u.email = last.input.email
              /\ verify_password(last.input.password, u.hashed_password)
              /\ last.response.body.access_token.claims.sub = u.email
        /\ last.response.body.access_token.claims.exp
              = now + ACCESS_TOKEN_EXPIRE_MINUTES
        /\ last.response.body.access_token.key = SECRET_KEY

\* a token was issued by a login after the clock had advanced
W5_TokenIssuedLater ==
    /\ last.op = "login"
    /\ last.response.status = 200
    /\ now > 0
    /\ last.response.body.access_token.claims.sub = last.input.email

C7_UnauthenticatedUniform ==
    (/\ last.op \in {"verify-token", "get-profile"}
     /\ last.input.scheme = "Bearer"
     /\ last.response.status # 200) =>
        last.response = [status |-> 401,
                         detail |-> "Could not validate credentials",
                         headers |-> "WWW-Authenticate: Bearer",
                         body |-> [kind |-> "none"]]

\* a good token whose subject has no stored identity was refused
W7_SubjectWithoutIdentity ==
    /\ last.op = "get-profile"
    /\ last.why = "no identity"
    /\ last.response.status = 401

\* tokens a client holds that are signed and carry a subject
GoodTokens == {e \in tokens : SignatureValid(e.token) /\ HasSubject(e.token)}

C8_Window ==
    \A e \in GoodTokens :
        /\ now < e.iat + e.life => verify_token(e.token, now).ok
        /\ now > e.iat + e.life => ~verify_token(e.token, now).ok

C8_StaysExpired ==
    \A e \in GoodTokens :
        ~verify_token(e.token, now).ok => ~verify_token(e.token, now').ok

\* C8: a token issued at t with lifetime L verifies at every time before
\* t + L and fails at every time after t + L, and once it has failed for
\* expiry it never verifies again.
C8_TokenLifetime == []C8_Window /\ [][C8_StaysExpired]_vars

\* a token issued by login was refused after its lifetime
W8_LoginTokenExpired ==
    /\ last.op = "verify-token"
    /\ last.why = "expired"
    /\ \E e \in tokens :
          /\ last.input = Bearer(e.token)
          /\ e.life = ACCESS_TOKEN_EXPIRE_MINUTES
          /\ now > e.iat + e.life

C10_ResolveIdentity ==
    (/\ last.op = "get-profile"
     /\ last.input.scheme = "Bearer"
     /\ verify_token(last.input.credentials, now).ok) =>
        LET sub == last.input.credentials.claims.sub IN
        IF \E u \in users : u.email = sub
        THEN /\ last.response.status = 200
             /\ last.response.body.email = sub
             /\ \E u \in users :
                   /\ u.email = sub
                   /\ last.response.body.id = u.id
        ELSE /\ last.response.status = 401
             /\ last.response.detail = "Could not validate credentials"

\* a verified subject resolved to its stored identity
W10_Resolved ==
    /\ last.op = "get-profile"
    /\ last.response.status = 200
    /\ last.response.body.email = EmailTestuser

\* the fields of the public view, and the fields that hold a password or a
\* digest anywhere in the program
PublicFields == {"id", "first_name", "last_name", "email", "created_at"}

SecretFields == {"password", "confirm_password", "hashed_password"}

\* C11: every stored identity holds a digest made by the hasher and no
\* plaintext password, and no response of register, get-profile or
\* update-profile carries a password or digest field: a successful one is
\* the public view with exactly id, first_name, last_name, email and
\* created_at.
C11_DigestNeverExposed ==
    /\ \A u \in users :
          /\ DOMAIN u \cap {"password", "confirm_password"} = {}
          /\ DOMAIN u.hashed_password = {"pw", "salt"}
    /\ last.op \in {"register", "get-profile", "update-profile"} =>
          /\ DOMAIN last.response.body \cap SecretFields = {}
          /\ last.response.status \in {200, 201} =>
                DOMAIN last.response.body \ {"kind"} = PublicFields

\* a registration answered with the public view of the identity that was
\* stored with a digest of the submitted password
W11_CreatedViewWithoutDigest ==
    /\ last.op = "register"
    /\ last.response.status = 201
    /\ \E u \in users :
          /\ u.email = last.input.email
          /\ u.id = last.response.body.id
          /\ verify_password(last.input.password, u.hashed_password)

\* C12: two independent calls of get_password_hash on the same password
\* return different digests, and verify_password of that password is true
\* for each of them.
C12_FreshSaltPerCall ==
    /\ \A d, e \in digests :
          (d.call # e.call /\ d.password = e.password) =>
              /\ d.hashed # e.hashed
              /\ verify_password(d.password, d.hashed)
              /\ verify_password(e.password, e.hashed)
    /\ (/\ last.op = "verify-password"
        /\ last.input.plain_password = last.input.digest.password) =>
          last.response.body.value = TRUE

\* the same password hashed twice, and the second digest verified
W12_SamePasswordTwice ==
    /\ last.op = "verify-password"
    /\ last.response.body.value = TRUE
    /\ \E d \in digests :
          /\ d.call # last.input.digest.call
          /\ d.password = last.input.digest.password
          /\ d.password = last.input.plain_password
          /\ d.hashed # last.input.digest.hashed

\* C13: verify_password(p, digest) is false for every password p other
\* than the one the digest was produced from.
C13_OnlyExactPassword ==
    /\ \A d \in digests : \A p \in HashPasswords :
          p # d.password => ~verify_password(p, d.hashed)
    /\ (/\ last.op = "verify-password"
        /\ last.input.plain_password # last.input.digest.password) =>
          last.response.body.value = FALSE

\* a password that differs from the hashed one only in letter case was
\* refused
W13_CaseVariantRefused ==
    /\ last.op = "verify-password"
    /\ last.input.digest.password = PwSimilar
    /\ last.input.plain_password = LowerCase(PwSimilar)
    /\ last.response.body.value = FALSE

\* pydantic reported the message m for the body validated last
Raised(m) ==
    /\ last.response.body.kind = "errors"
    /\ \E i \in 1..Len(last.response.body.errors) :
          last.response.body.errors[i] = m

\* the messages of the password validator
PasswordMessages ==
    {"Password must be at least 12 characters long",
     "Password must contain at least one uppercase letter",
     "Password must contain at least one lowercase letter",
     "Password must contain at least one number",
     "Password must contain at least one symbol",
     "Password cannot contain 3 or more consecutive repeated characters"}

\* v has three equal characters in a row somewhere
HasTriple(v) ==
    \E i \in 1..(Len(v) - 2) : \E c \in {v[j] : j \in 1..Len(v)} :
        SubSeq(v, i, i + 2) = <<c, c, c>>

\* C14 (as stated): UserCreate accepts a body if and only if the email ends
\* with the required domain, the password has at least 12 characters, an
\* uppercase letter, a lowercase letter, a digit and a symbol, where every
\* ASCII punctuation character counts as a symbol (the characters of the
\* validator's class, "~" and the backquote), there is no run of 3 equal
\* characters, and the confirmation equals the password.
X14_AcceptIffAllRules ==
    last.op = "validate" =>
        LET pw == last.input.password
            punctuation == SymbolChars \cup {"~"}
        IN  (last.why = "accepted") <=>
                /\ endswith(last.input.email, RequiredDomain)
                /\ Len(pw) >= 12
                /\ \E i \in 1..Len(pw) : pw[i] \in UpperChars
                /\ \E i \in 1..Len(pw) : pw[i] \in LowerChars
                /\ \E i \in 1..Len(pw) : pw[i] \in DigitChars
                /\ \E i \in 1..Len(pw) : pw[i] \in punctuation
                /\ ~HasTriple(pw)
                /\ last.input.confirm_password = pw

\* C15: a password shorter than 12 characters is rejected with the length
\* message and with no other message of the password validator, whatever
\* other rules it violates.
C15_ShortRejectedForLength ==
    (last.op = "validate" /\ Len(last.input.password) < 12) =>
        /\ last.why = "rejected"
        /\ \A m \in PasswordMessages :
              Raised(m) <=> m = "Password must be at least 12 characters long"

\* a short password without uppercase letter and digit was rejected for
\* its length
W15_ShortAndMissingClasses ==
    /\ last.op = "validate"
    /\ Len(last.input.password) < 12
    /\ Len(last.input.password) > 0
    /\ ~search(UpperChars, last.input.password)
    /\ ~search(DigitChars, last.input.password)
    /\ Raised("Password must be at least 12 characters long")

\* C16 (as stated): a password that lacks an uppercase letter, a lowercase
\* letter, a digit or a symbol is rejected with the message of each class
\* it lacks, whatever other rules it satisfies or violates.
X16_EveryMissingClassNamed ==
    last.op = "validate" =>
        LET pw == last.input.password IN
        /\ ~search(UpperChars, pw) =>
              Raised("Password must contain at least one uppercase letter")
        /\ ~search(LowerChars, pw) =>
              Raised("Password must contain at least one lowercase letter")
        /\ ~search(DigitChars, pw) =>
              Raised("Password must contain at least one number")
        /\ ~search(SymbolChars, pw) =>
              Raised("Password must contain at least one symbol")

\* the message of the first class, in the order uppercase, lowercase,
\* number, symbol, that the password lacks
FirstMissingClass(pw) ==
    IF \A i \in 1..Len(pw) : pw[i] \notin UpperChars
    THEN "Password must contain at least one uppercase letter"
    ELSE IF \A i \in 1..Len(pw) : pw[i] \notin LowerChars
    THEN "Password must contain at least one lowercase letter"
    ELSE IF \A i \in 1..Len(pw) : pw[i] \notin DigitChars
    THEN "Password must contain at least one number"
    ELSE IF \A i \in 1..Len(pw) : pw[i] \notin SymbolChars
    THEN "Password must contain at least one symbol"
    ELSE "none"

\* C16: a password of at least 12 characters that lacks one of the classes
\* is rejected with the message of the first class it lacks, in the order
\* uppercase, lowercase, number, symbol, and with no other message of the
\* password validator, whether or not it has a run of repeated characters
\* and whatever the email and the confirmation are.
C16_FirstMissingClassNamed ==
    (/\ last.op = "validate"
     /\ Len(last.input.password) >= 12
     /\ FirstMissingClass(last.input.password) # "none") =>
        /\ last.why = "rejected"
        /\ \A m \in PasswordMessages :
              Raised(m) <=> m = FirstMissingClass(last.input.password)

\* a long password with uppercase and lowercase letters only, rejected
\* for the missing number
W16_OnlyLettersNamedNumber ==
    /\ last.op = "validate"
    /\ Len(last.input.password) >= 12
    /\ search(UpperChars, last.input.password)
    /\ search(LowerChars, last.input.password)
    /\ ~search(DigitChars, last.input.password)
    /\ ~search(SymbolChars, last.input.password)
    /\ Raised("Password must contain at least one number")
    /\ ~Raised("Password must contain at least one symbol")

\* C17: a password that passes the length and character-class rules of
\* the validator is rejected with the repeated-character message if and
\* only if it has three equal characters in a row, compared exactly;
\* "aaaBBB111!!!" is rejected with it and "aaAbbB11!!22", whose longest
\* run is 2, is not.
C17_RepeatedCharacters ==
    last.op = "validate" =>
        LET pw == last.input.password
            repeated ==
                Raised("Password cannot contain 3 or more consecutive repeated characters")
        IN  /\ (Len(pw) >= 12 /\ FirstMissingClass(pw) = "none") =>
                  (repeated <=> HasTriple(pw))
            /\ pw = PwTriples => repeated
            /\ pw = PwPairs => ~repeated

\* a password whose only run of three is at its very end was rejected for
\* it
W17_RunAtTheEnd ==
    /\ last.op = "validate"
    /\ last.input.password = PwTailRun
    /\ Raised("Password cannot contain 3 or more consecutive repeated characters")

\* C18: every stored identity has an email that ends with
\* "@getcovered.io"; a register request whose email does not end with it
\* is answered 422 with the domain message and no identity with that email
\* is stored.
C18_StoredEmailsInDomain ==
    /\ \A u \in users : endswith(u.email, RequiredDomain)
    /\ (/\ last.op = "register"
        /\ ~endswith(last.input.email, RequiredDomain)) =>
          /\ last.response.status = 422
          /\ Raised("Email must be from @getcovered.io domain")
          /\ \A u \in users : u.email # last.input.email

\* a register request for john.doe@gmail.com was turned down while other
\* identities were stored
W18_ForeignDomainRejected ==
    /\ last.op = "register"
    /\ last.input.email = EmailGmail
    /\ last.response.status = 422
    /\ users # {}

\* C20: register applies structural validation, then the difference check,
\* then the email lookup, then hashes and persists, and answers with the
\* error of the earliest failing stage: a structurally invalid body is
\* answered 422 without the difference message and without touching the
\* store, even when its password is too close to the local-part; a valid
\* body whose password is too close is answered 400 with the difference
\* message, even when its email is stored; only a body that passed both is
\* looked up (400 "Email already registered") and only a body that passed
\* all three is hashed and persisted.
C20_StageOrder ==
    [][(last' # last /\ last'.op = "register") =>
          LET user == last'.input
              difference ==
                  "Password must differ from email local part by at least 5 characters"
          IN  IF \/ validate_email_domain(user.email) # Ok
                 \/ validate_password(user.password) # Ok
                 \/ user.confirm_password # user.password
              THEN /\ last'.response.status = 422
                   /\ \A i \in 1..Len(last'.response.body.errors) :
                         last'.response.body.errors[i] # difference
                   /\ users' = users
              ELSE IF Differences(LocalPart(user.email), user.password) < 5
              THEN /\ last'.response.status = 400
                   /\ last'.response.detail = difference
                   /\ users' = users
              ELSE IF pc' = pc
              THEN /\ user.email \in Emails(users)
                   /\ last'.response.status = 400
                   /\ last'.response.detail = "Email already registered"
                   /\ users' = users
              ELSE last'.response.status = 201 =>
                   /\ user.email \notin Emails(users)
                   /\ \E u \in users' \ users :
                         /\ u.email = user.email
                         /\ verify_password(user.password, u.hashed_password)
      ]_vars

\* a too-similar password submitted with a stored email was answered with
\* the difference message
W20_PolicyBeforeDuplicate ==
    /\ last.op = "register"
    /\ last.input.email \in Emails(users)
    /\ last.response.status = 400
    /\ last.response.detail =
          "Password must differ from email local part by at least 5 characters"

\* the number of positions at which a and b, both lowercased, differ,
\* counted from the front as far as the shorter one reaches
RECURSIVE Mismatches(_, _)
Mismatches(a, b) ==
    IF a = << >> \/ b = << >> THEN 0
    ELSE (IF lower(Head(a)) # lower(Head(b)) THEN 1 ELSE 0)
         + Mismatches(Tail(a), Tail(b))

\* the characters of v before its first "@"
RECURSIVE BeforeFirstAt(_)
BeforeFirstAt(v) ==
    IF v = << >> \/ Head(v) = "@" THEN << >>
    ELSE <<Head(v)>> \o BeforeFirstAt(Tail(v))

\* C19: the difference check rejects a candidate exactly when
\* d = (number of positions below the shorter length at which the
\* lowercased local-part and the lowercased password differ)
\*     + |len(local-part) - len(password)|
\* is less than 5, the local-part being what precedes the first "@" of the
\* email; a candidate that differs from it only in the letter case of the
\* password or of the local-part gets the same outcome.
C19_DifferenceFormula ==
    last.op = "difference-check" =>
        LET local == BeforeFirstAt(last.input.email)
            pw == last.input.password
            longer == IF Len(local) > Len(pw) THEN Len(local) - Len(pw)
                      ELSE Len(pw) - Len(local)
            d == Mismatches(local, pw) + longer
            rejected == (last.why = "Password must differ from email local part by at least 5 characters")
        IN  /\ rejected <=> d < 5
            /\ ~rejected => last.why = "ok"
            /\ \A c \in SimilarCandidates :
                  (/\ LowerCase(BeforeFirstAt(c.email)) = LowerCase(local)
                   /\ LowerCase(c.password) = LowerCase(pw)) =>
                      (validate_password_email_difference(c) = "ok") = ~rejected

\* "tESTUSER123!" with testuser@XXXXX@getcovered.io was rejected: the
\* local-part ends at the first "@" and letter case does not count
W19_CaseAndFirstAt ==
    /\ last.op = "difference-check"
    /\ last.input.email = EmailTwoAts
    /\ last.input.password = PwSimilarSwapped
    /\ last.why = "Password must differ from email local part by at least 5 characters"

(***************************************************************************)
(* Effects of register on the store.                                       *)
(***************************************************************************)
\* slot p's register request commits in this step
RegisterCommits(p) == pc[p] = "register_insert" /\ pc'[p] = "idle"

\* C21: a register request that passed the structural validation and the
\* difference check and whose email is not in the store when it inserts is
\* answered 201 and adds exactly one identity: email and names are the
\* request's, the digest verifies the request's password, the id is new, the
\* creation timestamp is set and the modification timestamp is not, and the
\* returned view carries the new id.
C21_RegisterAddsOneIdentity ==
    [][\A p \in Procs :
          (/\ RegisterCommits(p)
           /\ StructuralErrors(req[p]) = << >>
           /\ validate_password_email_difference(req[p]) = Ok
           /\ req[p].email \notin Emails(users))
          => /\ last'.op = "register"
             /\ last'.response.status = 201
             /\ \E u \in users' :
                   /\ u \notin users
                   /\ users' = users \cup {u}
                   /\ u.email = req[p].email
                   /\ u.first_name = req[p].first_name
                   /\ u.last_name = req[p].last_name
                   /\ verify_password(req[p].password, u.hashed_password)
                   /\ \A v \in users : v.id # u.id
                   /\ u.created_at = now
                   /\ u.updated_at = Null
                   /\ last'.response.body.id = u.id]_vars

\* a second identity has been registered: its view carries its own id
W21_SecondIdentityCreated ==
    /\ last.op = "register"
    /\ last.why = "created"
    /\ Cardinality(users) > 1
    /\ \E u \in users : /\ u.email = last.input.email
                        /\ u.id = last.response.body.id
                        /\ u.id > 1
                        /\ u.updated_at = Null

\* C22: a register request that fails, at validation, at the difference
\* check, at the lookup or at the commit, leaves the store as it was, and
\* one that succeeds makes the store one identity larger.
C22_FailedRegisterKeepsStore ==
    [][/\ \A p \in Procs :
             RegisterCommits(p)
             => IF last'.response.status = 201
                THEN /\ users \subseteq users'
                     /\ Cardinality(users') = Cardinality(users) + 1
                ELSE users' = users
       /\ (pc' = pc /\ last'.op = "register")
             => /\ last'.response.status # 201
                /\ users' = users]_vars

\* a register request has failed at its commit while the store held
\* identities
W22_FailedAtCommit ==
    /\ last.op = "register"
    /\ last.why = "IntegrityError"
    /\ last.response.status = 500
    /\ Cardinality(users) > 0

(***************************************************************************)
(* Profile updates of registered users: two identities are stored, their   *)
(* owners log in, read and update their profiles from concurrent requests. *)
(***************************************************************************)
InitProfile ==
    /\ users = {[id |-> 1, first_name |-> "John", last_name |-> "Doe",
                 email |-> EmailTestuser,
                 hashed_password |-> get_password_hash(PwJohn, 1),
                 created_at |-> 0, updated_at |-> Null],
                [id |-> 2, first_name |-> "John", last_name |-> "Smith",
                 email |-> EmailJohn,
                 hashed_password |-> get_password_hash(PwJohn, 2),
                 created_at |-> 0, updated_at |-> Null]}
    /\ now = 0
    /\ tokens = {}
    /\ ticks = 0
    /\ digests = {}
    /\ pc = [p \in Procs |-> "idle"]
    /\ req = [p \in Procs |-> NoRequest]
    /\ last = NoReply

ProfileLogins ==
    {UserLogin(EmailTestuser, PwJohn), UserLogin(EmailJohn, PwJohn)}

\* update bodies that each change one name of (John, Doe)
ProfileUpdates ==
    {[first_name |-> "Jane", last_name |-> "Doe"],
     [first_name |-> "John", last_name |-> "Smith"]}

NextProfile ==
    \/ \E p \in Procs, c \in ProfileLogins : Login(p, c)
    \/ \E p \in Procs, c \in Credentials : GetProfile(p, c)
    \/ \E p \in Procs, c \in Credentials, u \in ProfileUpdates :
          UpdateBegin(p, c, u)
    \/ \E p \in Procs : UpdateCommit(p)

SpecProfile == InitProfile /\ [][NextProfile]_vars

\* slot p's update-profile request commits in this step
UpdateCommits(p) == pc[p] = "update_commit" /\ pc'[p] = "idle"

\* the email the token of an update request resolves to
Caller(r) == verify_token(r.credentials.credentials, now).sub

\* the stored row with the given id
Row(rows, id) == CHOOSE u \in rows : u.id = id

\* C23: an update-profile commit changes nothing but the first name, the
\* last name and the modification timestamp of the identity the caller's
\* token resolves to: that identity keeps its id, email, digest and creation
\* timestamp, and every other identity is unchanged.
C23_UpdateFrame ==
    [][\A p \in Procs :
          UpdateCommits(p)
          => /\ {u.id : u \in users'} = {u.id : u \in users}
             /\ Cardinality(users') = Cardinality(users)
             /\ \A u \in users :
                   /\ Row(users', u.id).email = u.email
                   /\ Row(users', u.id).hashed_password = u.hashed_password
                   /\ Row(users', u.id).created_at = u.created_at
                   /\ u.email # Caller(req[p]) => u \in users']_vars

\* an update has changed the caller's names and stamped the row while the
\* other identity is as it was registered
W23_OneRowUpdated ==
    /\ last.op = "update-profile"
    /\ last.response.status = 200
    /\ \E u \in users : /\ u.id = last.input.id
                        /\ u.first_name = "Jane"
                        /\ u.updated_at # Null
    /\ \E u \in users : /\ u.id # last.input.id
                        /\ u.updated_at = Null

\* C24 as stated: after a successful update-profile call the stored names
\* of the caller's identity are the submitted ones, the returned view shows
\* them, and the modification timestamp is set.
X24_StoredNamesAreSubmitted ==
    (last.op = "update-profile" /\ last.response.status = 200)
    => /\ Row(users, last.input.id).first_name = last.input.first_name
       /\ Row(users, last.input.id).last_name = last.input.last_name
       /\ last.response.body.first_name = last.input.first_name
       /\ last.response.body.last_name = last.input.last_name
       /\ Row(users, last.input.id).updated_at # Null

\* C29 as stated: whenever an update-profile request commits, the stored
\* pair of names is the pair that request submitted, also when another
\* request for the same identity committed after this one loaded the row.
X29_LastUpdateWins ==
    [][\A p \in Procs :
          UpdateCommits(p)
          => <<Row(users', req[p].id).first_name,
               Row(users', req[p].id).last_name>>
             = <<req[p].first_name, req[p].last_name>>]_vars

(***************************************************************************)
(* One client's session over time: it logs in, reads and updates its       *)
(* profile with the tokens it holds, or with none, and time passes.        *)
(***************************************************************************)
SessionLogins ==
    {UserLogin(EmailTestuser, PwJohn), UserLogin(EmailTestuser, PwSimilar)}

NextSession ==
    \/ \E c \in SessionLogins : Login(Client, c)
    \/ \E c \in AnyCredentials : GetProfile(Client, c)
    \/ \E c \in AnyCredentials, u \in UserUpdates : UpdateBegin(Client, c, u)
    \/ UpdateCommit(Client)
    \/ \E d \in ClockSteps : Tick(d)

SpecSession == InitToken /\ [][NextSession]_vars

\* the credentials are a bearer token that is well formed, signed with the
\* server's key and not expired at time t
ValidToken(credentials, t) ==
    /\ credentials.scheme = "Bearer"
    /\ WellFormed(credentials.credentials)
    /\ SignatureValid(credentials.credentials)
    /\ ~Expired(credentials.credentials, t)

\* C25: a get-profile or update-profile request without bearer credentials
\* is answered 403 and one whose token is malformed, wrongly signed or
\* expired is answered 401, the store staying as it was; the handler of
\* update-profile is only entered with a valid token.
C25_ProfileNeedsValidToken ==
    [][/\ (pc' = pc /\ last'.op \in {"get-profile", "update-profile"})
          => /\ last'.input.scheme # "Bearer"
                => (last'.response.status = 403 /\ users' = users)
             /\ (last'.input.scheme = "Bearer" /\ ~ValidToken(last'.input, now))
                => (last'.response.status = 401 /\ users' = users)
             /\ last'.response.status = 200 => ValidToken(last'.input, now)
       /\ \A p \in Procs :
             (pc[p] = "idle" /\ pc'[p] = "update_commit")
             => ValidToken(req'[p].credentials, now)]_vars

\* an update-profile request with a token that has expired was answered
\* 401 after an earlier update with the same token had succeeded
W25_ExpiredTokenRefused ==
    /\ last.op = "update-profile"
    /\ last.why = "expired"
    /\ last.response.status = 401
    /\ last.input \in {Bearer(e.token) : e \in tokens}
    /\ \E u \in users : u.updated_at # Null

RegisteredPassword(u) == u.hashed_password.pw

\* C26: no step changes or removes the digest of a stored identity, and a
\* login with a stored email is answered 200 exactly when the password is
\* the one the identity was registered with, whatever registrations, logins
\* and profile updates came before.
C26_LoginKeepsWorking ==
    [][/\ \A u \in users :
             \E v \in users' : /\ v.id = u.id
                               /\ v.email = u.email
                               /\ v.hashed_password = u.hashed_password
       /\ \A p \in Procs :
             (RegisterCommits(p) /\ last'.response.status = 201)
             => \E v \in users' \ users :
                   /\ v.email = req[p].email
                   /\ RegisteredPassword(v) = req[p].password
       /\ (pc' = pc /\ last'.op = "login"
           /\ last'.input.email \in Emails(users))
          => (last'.response.status = 200
              <=> last'.input.password
                  = RegisteredPassword(first(filter_by_email(last'.input.email))))
      ]_vars

\* a login succeeds after the identity's profile was updated and another
\* identity was registered
W26_LoginAfterUpdateAndRegister ==
    /\ last.op = "login"
    /\ last.why = "verified"
    /\ Cardinality(users) > 1
    /\ \E u \in users : /\ u.email = last.input.email
                        /\ u.updated_at # Null
                        /\ u.first_name = "Jane"

(***************************************************************************)
(* Seeding the store.                                                      *)
(***************************************************************************)
\* slot p's init-db request commits in this step
InitDbCommits(p) == pc[p] = "init_insert" /\ pc'[p] = "idle"

\* C27 as stated: init-db stores its test users only when the store holds
\* no identity, and either all of them or none; with an identity in the
\* store it is answered 400 and changes nothing.
X27_SeedsOnlyIntoEmptyStore ==
    [][/\ \A p \in Procs :
             InitDbCommits(p)
             => IF last'.response.status = 200
                THEN /\ users = {}
                     /\ Emails(users') = {fake_users[i].email :
                                             i \in 1..Len(fake_users)}
                ELSE users' = users
       /\ (pc' = pc /\ last'.op = "init-db")
             => /\ last'.response.status = 400
                /\ users # {}
                /\ users' = users]_vars

\* C30: for a candidate that passed the structural validation, so that its
\* password has at least MIN_PASSWORD_LENGTH characters, the difference
\* check passes whenever the local-part of the email has at most 7
\* characters, and it rejects only when the lengths of the local-part and
\* of the password differ by at most 4.
C30_LengthTermDecides ==
    last.op = "difference-check"
    => /\ Len(last.input.password) >= MIN_PASSWORD_LENGTH
       /\ Len(LocalPart(last.input.email)) <= 7 => last.why = Ok
       /\ last.why # Ok
          => Abs(Len(LocalPart(last.input.email)) - Len(last.input.password))
             <= 4

\* a 7-character local-part that the password starts with, case apart: no
\* character differs and the check passes on the lengths alone
W30_ShortLocalPartPasses ==
    /\ last.op = "difference-check"
    /\ last.why = Ok
    /\ Len(LocalPart(last.input.email)) = 7
    /\ Mismatches(LocalPart(last.input.email), last.input.password) = 0

====
